---- MODULE Spec2Model ----
(***************************************************************************)
(* export_gff3_feature.py: locate one feature in a GFF3+FASTA file, slice  *)
(* its region out of the embedded sequence block, reverse-complement it on *)
(* the minus strand and print it as a 60-column FASTA record.              *)
(*                                                                         *)
(* A string is a sequence of one-character strings; a file is a sequence   *)
(* of lines (without their newline); standard output is a sequence of      *)
(* printed lines.                                                          *)
(***************************************************************************)
EXTENDS Integers, Sequences, FiniteSets, TLC

VARIABLES argv, fs, pc, feature, fasta_data, sequence, out, exit, calls

vars == <<argv, fs, pc, feature, fasta_data, sequence, out, exit, calls>>

(* ------------------------------ bounds --------------------------------- *)
\* longest file drawn from the pool of lines
MaxLines == 3
\* length of the sequence block of the long files
BlockLen == 130
\* largest end coordinate of the long files
MaxEnd == 132
\* length of the first named sequence of the long files
FirstLineLen == 70

(* ------------------------- program constants --------------------------- *)
NumColumns == 9
ChunkWidth == 60
NumArgs == 5

(* --------------------------- string helpers ---------------------------- *)
Min(S) == CHOOSE x \in S : \A y \in S : x <= y
Max(S) == CHOOSE x \in S : \A y \in S : x >= y

\* str.strip() with no argument: ASCII whitespace
Whitespace == {" ", "\t", "\n", "\r", "\f"}

Strip(s) ==
    LET keep == {i \in 1..Len(s) : s[i] \notin Whitespace}
    IN  IF keep = {} THEN <<>> ELSE SubSeq(s, Min(keep), Max(keep))

StartsWith(s, p) == Len(s) >= Len(p) /\ SubSeq(s, 1, Len(p)) = p

\* str.split(sep) for a one-character sep: always at least one field
RECURSIVE Split(_, _)
Split(s, sep) ==
    LET at == {i \in 1..Len(s) : s[i] = sep}
    IN  IF at = {} THEN <<s>>
        ELSE <<SubSeq(s, 1, Min(at) - 1)>> \o Split(SubSeq(s, Min(at) + 1, Len(s)), sep)

\* str.split(sep, 1): at most one cut, at the first sep
SplitOnce(s, sep) ==
    LET at == {i \in 1..Len(s) : s[i] = sep}
    IN  IF at = {} THEN <<s>>
        ELSE <<SubSeq(s, 1, Min(at) - 1), SubSeq(s, Min(at) + 1, Len(s))>>

\* sep.join(parts)
RECURSIVE Join(_, _)
Join(parts, sep) ==
    IF parts = <<>> THEN <<>>
    ELSE IF Len(parts) = 1 THEN parts[1]
    ELSE parts[1] \o sep \o Join(Tail(parts), sep)

\* s[a:b] of Python: negative indices count from the end, both ends clamp
PySlice(s, a, b) ==
    LET n  == Len(s)
        a1 == IF a < 0 THEN (IF a + n < 0 THEN 0 ELSE a + n) ELSE (IF a > n THEN n ELSE a)
        b1 == IF b < 0 THEN (IF b + n < 0 THEN 0 ELSE b + n) ELSE (IF b > n THEN n ELSE b)
    IN  IF a1 >= b1 THEN <<>> ELSE SubSeq(s, a1 + 1, b1)

\* sequence[::-1]
Reverse(s) == [i \in 1..Len(s) |-> s[Len(s) + 1 - i]]

(* ------------------------------- int() --------------------------------- *)
Digits == <<"0", "1", "2", "3", "4", "5", "6", "7", "8", "9">>

DigitVal(c) == (CHOOSE d \in 1..10 : Digits[d] = c) - 1

IsDigit(c) == \E d \in 1..10 : Digits[d] = c

\* the value of a run of digits; the underscores in it are skipped
RECURSIVE DigitsValue(_)
DigitsValue(s) ==
    IF s = <<>> THEN 0
    ELSE LET rest == DigitsValue(SubSeq(s, 1, Len(s) - 1))
         IN  IF s[Len(s)] = "_" THEN rest ELSE 10 * rest + DigitVal(s[Len(s)])

\* body is what follows the optional sign: decimal digits with single
\* underscores between them
WellFormedInt(body) ==
    /\ Len(body) > 0
    /\ \A i \in 1..Len(body) : IsDigit(body[i]) \/ body[i] = "_"
    /\ IsDigit(body[1]) /\ IsDigit(body[Len(body)])
    /\ \A i \in 1..(Len(body) - 1) : ~(body[i] = "_" /\ body[i + 1] = "_")

ParseDigits(body, negative) ==
    IF ~WellFormedInt(body) THEN [ok |-> FALSE, val |-> 0]
    ELSE [ok |-> TRUE, val |-> IF negative THEN 0 - DigitsValue(body) ELSE DigitsValue(body)]

ParseSigned(t) ==
    IF t # <<>> /\ t[1] \in {"+", "-"} THEN ParseDigits(Tail(t), t[1] = "-")
    ELSE ParseDigits(t, FALSE)

\* int(text): surrounding whitespace, an optional sign, the digits; anything
\* else raises ValueError (ok = FALSE)
IntParse(text) == ParseSigned(Strip(text))

(* --------------------------- values of Python --------------------------- *)
\* None / a dict {"seqid", "start", "end", "strand"}
NoFeature == [some |-> FALSE, seqid |-> <<>>, start |-> 0, end |-> 0, strand |-> <<>>]

MkFeature(seqid, start, end, strand) ==
    [some |-> TRUE, seqid |-> seqid, start |-> start, end |-> end, strand |-> strand]

\* None / a str
NoneStr == [none |-> TRUE, str |-> <<>>]

Str(s) == [none |-> FALSE, str |-> s]

\* truth value of a dict-or-None (a feature dict is never empty)
FeatureTruthy(f) == f.some

\* truth value of a str-or-None: None and "" are both false
StrTruthy(s) == ~s.none /\ s.str # <<>>

\* the exceptions the model raises; all are subclasses of Exception
IsException(e) == e \in {"FileNotFoundError", "UnicodeDecodeError", "ValueError"}

\* print(text): the lines that reach standard output
PrintLines(text) == Split(text, "\n")

(* ---------------------------- find_feature ------------------------------ *)
TAB == "\t"

\* a faulty variant: comment lines are not skipped
NeverComment(line) == FALSE

IsCommentLine(line) == StartsWith(line, <<"#">>)

HasColumns(columns) == Len(columns) = NumColumns

\* the loop that fills attr_dict: later keys overwrite earlier ones
RECURSIVE AttrDict(_, _)
AttrDict(entries, d) ==
    IF entries = <<>> THEN d
    ELSE LET kv == Head(entries)
         IN  IF \E i \in 1..Len(kv) : kv[i] = "="
             THEN LET p   == SplitOnce(kv, "=")
                      key == Strip(p[1])
                      val == Strip(p[2])
                  IN  AttrDict(Tail(entries),
                               [k \in (DOMAIN d) \cup {key} |-> IF k = key THEN val ELSE d[k]])
             ELSE AttrDict(Tail(entries), d)

\* a faulty variant: the first occurrence of a key wins
ParseAttributesFirstWins(attributes) == AttrDict(Reverse(Split(attributes, ";")), <<>>)

ParseAttributes(attributes) == AttrDict(Split(attributes, ";"), <<>>)

\* attr_dict.get(attribute) == value (None never equals a str)
AttrMatches(attr_dict, attribute, value) ==
    attribute \in DOMAIN attr_dict /\ attr_dict[attribute] = value

TypeMatches(f_type, feature_type) == f_type = feature_type

\* lines 52-58: the match is appended, with int(start) and int(end)
AppendMatch(seqid, start, end, strand) ==
    IF start.ok /\ end.ok
    THEN [step |-> "break", matches |-> <<MkFeature(seqid, start.val, end.val, strand)>>]
    ELSE [step |-> "raise", matches |-> <<>>]

\* lines 33-58 on the columns of a line
GffColumns(columns, feature_type, attribute, value) ==
    \* the nine-name unpacking of line 33
    IF Len(columns) # 9 THEN [step |-> "raise", matches |-> <<>>]
    ELSE IF /\ TypeMatches(columns[3], feature_type)
            /\ AttrMatches(ParseAttributes(columns[9]), attribute, value)
    THEN AppendMatch(columns[1], IntParse(columns[4]), IntParse(columns[5]), columns[7])
    ELSE [step |-> "continue", matches |-> <<>>]

SkipColumns(columns, feature_type, attribute, value) ==
    IF ~HasColumns(columns) THEN [step |-> "continue", matches |-> <<>>]
    ELSE GffColumns(columns, feature_type, attribute, value)

\* one iteration of the for loop on a stripped line: "continue" (the line
\* is skipped), "break" (a match was appended) or "raise"
GffLine(line, feature_type, attribute, value) ==
    IF IsCommentLine(line) THEN [step |-> "continue", matches |-> <<>>]
    ELSE SkipColumns(Split(line, TAB), feature_type, attribute, value)

\* the for loop over the file's lines, from line i on; it stops at the
\* first match (break) or at the first exception
RECURSIVE ScanGff(_, _, _, _, _)
ScanStep(r, lines, i, feature_type, attribute, value) ==
    IF r.step = "continue" THEN ScanGff(lines, i + 1, feature_type, attribute, value)
    ELSE [exc |-> IF r.step = "raise" THEN "ValueError" ELSE "none", matches |-> r.matches]

ScanGff(lines, i, feature_type, attribute, value) ==
    IF i > Len(lines) THEN [exc |-> "none", matches |-> <<>>]
    ELSE ScanStep(GffLine(Strip(lines[i]), feature_type, attribute, value),
                  lines, i, feature_type, attribute, value)

MsgFileNotFound(gff_path) ==
    <<"Error: The file ">> \o gff_path \o <<" could not be found.">>

MsgError(e) == <<"An error occurred: ", e>>

MsgMultiple == <<"Warning: Multiple matches found. Using the first one.">>

\* lines 59-64: what the try block returns and prints after the loop
ReturnMatches(r) ==
    IF r.exc # "none" THEN [exc |-> r.exc, ret |-> NoFeature, printed |-> <<>>]
    ELSE IF Len(r.matches) > 1
    THEN [exc |-> "none", ret |-> r.matches[1], printed |-> <<MsgMultiple>>]
    ELSE IF Len(r.matches) = 0
    THEN [exc |-> "none", ret |-> NoFeature, printed |-> <<>>]
    ELSE [exc |-> "none", ret |-> r.matches[1], printed |-> <<>>]

\* the try block: what it raises, returns and prints
FindFeatureBody(file, feature_type, attribute, value) ==
    IF file.kind = "missing"
    THEN [exc |-> "FileNotFoundError", ret |-> NoFeature, printed |-> <<>>]
    ELSE IF file.kind = "binary"
    THEN [exc |-> "UnicodeDecodeError", ret |-> NoFeature, printed |-> <<>>]
    ELSE ReturnMatches(ScanGff(file.lines, 1, feature_type, attribute, value))

\* a faulty variant: only the first except clause is there
FindCatchesOnlyMissing(e) == e = "FileNotFoundError"

\* which exceptions the except clauses of find_feature catch
FindCatches(e) == e = "FileNotFoundError" \/ IsException(e)

\* the except clauses of find_feature on the outcome b of the try block
FindHandlers(b, gff_path) ==
    IF b.exc = "none"
    THEN [raised |-> "none", ret |-> b.ret, printed |-> b.printed]
    ELSE IF ~FindCatches(b.exc)
    THEN [raised |-> b.exc, ret |-> NoFeature, printed |-> <<>>]
    ELSE IF b.exc = "FileNotFoundError"
    THEN [raised |-> "none", ret |-> NoFeature,
          printed |-> PrintLines(MsgFileNotFound(gff_path))]
    ELSE [raised |-> "none", ret |-> NoFeature, printed |-> PrintLines(MsgError(b.exc))]

FindFeature(file, gff_path, feature_type, attribute, value) ==
    FindHandlers(FindFeatureBody(file, feature_type, attribute, value), gff_path)

(* ---------------------------- extract_fasta ----------------------------- *)
FastaMarker == <<"#", "#", "F", "A", "S", "T", "A">>

IsFastaMarker(line) == StartsWith(line, FastaMarker)

\* a faulty variant: header lines are not skipped
NeverHeader(line) == FALSE

IsFastaHeader(line) == StartsWith(line, <<">">>)

\* one iteration of the for loop on a stripped line: the new values of
\* fasta_region and fasta_sequence
FastaLine(line, fasta_region, fasta_sequence) ==
    IF IsFastaMarker(line) THEN [region |-> TRUE, seq |-> fasta_sequence]
    ELSE IF fasta_region /\ line # <<>>
    THEN IF IsFastaHeader(line)
         THEN [region |-> fasta_region, seq |-> fasta_sequence]
         ELSE [region |-> fasta_region, seq |-> Append(fasta_sequence, line)]
    ELSE [region |-> fasta_region, seq |-> fasta_sequence]

\* the for loop over the file's lines, from line i on
RECURSIVE ScanFasta(_, _, _, _)
FastaStep(r, lines, i) == ScanFasta(lines, i + 1, r.region, r.seq)

ScanFasta(lines, i, fasta_region, fasta_sequence) ==
    IF i > Len(lines) THEN fasta_sequence
    ELSE FastaStep(FastaLine(Strip(lines[i]), fasta_region, fasta_sequence), lines, i)

\* a faulty variant: the lines are joined with newlines
FastaResultNewlines(fasta_sequence) == Str(Join(fasta_sequence, <<"\n">>))

\* what the try block returns when nothing is raised
FastaResult(fasta_sequence) == Str(Join(fasta_sequence, <<>>))

MsgFastaError(e) == <<"Error extracting FASTA: ", e>>

\* the try block of extract_fasta: what it raises and returns
ExtractFastaBody(file) ==
    IF file.kind = "missing" THEN [exc |-> "FileNotFoundError", ret |-> NoneStr]
    ELSE IF file.kind = "binary" THEN [exc |-> "UnicodeDecodeError", ret |-> NoneStr]
    ELSE [exc |-> "none", ret |-> FastaResult(ScanFasta(file.lines, 1, FALSE, <<>>))]

\* the except clause of extract_fasta on the outcome b of the try block
FastaHandlers(b) ==
    IF b.exc = "none" THEN [raised |-> "none", ret |-> b.ret, printed |-> <<>>]
    ELSE IF IsException(b.exc)
    THEN [raised |-> "none", ret |-> NoneStr, printed |-> PrintLines(MsgFastaError(b.exc))]
    ELSE [raised |-> b.exc, ret |-> NoneStr, printed |-> <<>>]

ExtractFasta(file) == FastaHandlers(ExtractFastaBody(file))

(* --------------------------- extract_sequence --------------------------- *)
\* complement.get(base, base)
Complement(base) ==
    CASE base = "A" -> "T" [] base = "T" -> "A" [] base = "C" -> "G" [] base = "G" -> "C"
      [] base = "a" -> "t" [] base = "t" -> "a" [] base = "c" -> "g" [] base = "g" -> "c"
      [] base = "N" -> "N" [] base = "n" -> "n"
      [] OTHER -> base

ComplementAll(r) == [i \in 1..Len(r) |-> Complement(r[i])]

\* a faulty variant: the slice is complemented but not reversed
ComplementOnly(s) == ComplementAll(s)

\* ''.join(complement.get(base, base) for base in sequence[::-1])
ReverseComplement(s) == ComplementAll(Reverse(s))

\* a faulty variant: the 1-based start is used as the 0-based one
RegionOneBased(fasta, f) == PySlice(fasta, f.start, f.end)

\* fasta_data[start:end] with start = feature["start"] - 1, end = feature["end"]
Region(fasta, f) == PySlice(fasta, f.start - 1, f.end)

IsMinus(strand) == strand = <<"-">>

\* lines 130-136 on the slice s
Oriented(s, strand) == IF IsMinus(strand) THEN Str(ReverseComplement(s)) ELSE Str(s)

ExtractSequence(fasta, f) ==
    IF ~StrTruthy(fasta) \/ ~FeatureTruthy(f) THEN NoneStr
    ELSE Oriented(Region(fasta.str, f), f.strand)

(* -------------------------------- main ---------------------------------- *)
\* a faulty variant: a chunk one character short of the step
ChunkShort(s, i) == PySlice(s, i, i + ChunkWidth - 1)

Chunk(s, i) == PySlice(s, i, i + ChunkWidth)

\* for i in range(0, len(sequence), 60): sequence_chunks.append(sequence[i:i+60])
SequenceChunks(s) ==
    [k \in 1..((Len(s) + ChunkWidth - 1) \div ChunkWidth) |-> Chunk(s, ChunkWidth * (k - 1))]

Header(feature_type, attribute, value) ==
    <<">">> \o feature_type \o <<":">> \o attribute \o <<":">> \o value

FormattedSequence(s) == Join(SequenceChunks(s), <<"\n">>)

MsgUsage ==
    << <<"Usage: python3 export_gff3_feature.py <source_gff> <type> <attribute> <value>">>,
       <<"Example: python3 export_gff3_feature.py Saccharomyces_cerevisiae_S288C.annotation.gff gene ID YAR003W">> >>

MsgNoMatch(feature_type, attribute, value) ==
    <<"No matching feature found for type=">> \o feature_type \o <<", attribute=">>
        \o attribute \o <<", value=">> \o value \o <<".">>

MsgNoFasta(source_gff) ==
    <<"No FASTA data found in the GFF3 file ">> \o source_gff \o <<".">>

MsgNoSequence(feature_type, attribute, value) ==
    <<"No sequence found for feature ">> \o feature_type \o <<":">> \o attribute
        \o <<":">> \o value \o <<".">>

\* sys.argv[1..4]
source_gff == argv[2]
feature_type == argv[3]
attribute == argv[4]
value == argv[5]

ArgCountOk(args) == Len(args) = NumArgs

\* a faulty variant: the test of line 157 never fires
NeverNotFeature(f) == FALSE

NotFeature(f) == ~FeatureTruthy(f)

NotFasta(s) == ~StrTruthy(s)

\* lines 145-148: wrong argument count, usage and sys.exit(1)
UsageError ==
    /\ pc = "main"
    /\ ~ArgCountOk(argv)
    /\ out' = out \o MsgUsage
    /\ exit' = 1
    /\ pc' = "exited"
    /\ UNCHANGED <<argv, fs, feature, fasta_data, sequence, calls>>

\* find_feature has returned r, or has let an exception through
FindReturns(r) ==
    /\ calls' = Append(calls, "find_feature")
    /\ out' = out \o r.printed
    /\ IF r.raised = "none"
       THEN feature' = r.ret /\ pc' = "after_find" /\ exit' = exit
       ELSE feature' = feature /\ pc' = "crashed" /\ exit' = 1

\* lines 150-155: feature = find_feature(...)
CallFindFeature ==
    /\ pc = "main"
    /\ ArgCountOk(argv)
    /\ FindReturns(FindFeature(fs, source_gff, feature_type, attribute, value))
    /\ UNCHANGED <<argv, fs, fasta_data, sequence>>

\* lines 157-159
NoMatch ==
    /\ pc = "after_find"
    /\ NotFeature(feature)
    /\ out' = out \o PrintLines(MsgNoMatch(feature_type, attribute, value))
    /\ pc' = "done"
    /\ exit' = 0
    /\ UNCHANGED <<argv, fs, feature, fasta_data, sequence, calls>>

\* the file is removed by another process between the two scans
Unlink ==
    /\ pc = "after_find"
    /\ ~NotFeature(feature)
    /\ fs.kind = "text"
    /\ fs' = [kind |-> "missing", lines |-> <<>>]
    /\ UNCHANGED <<argv, pc, feature, fasta_data, sequence, out, exit, calls>>

\* extract_fasta has returned r, or has let an exception through
FastaReturns(r) ==
    /\ calls' = Append(calls, "extract_fasta")
    /\ out' = out \o r.printed
    /\ IF r.raised = "none"
       THEN fasta_data' = r.ret /\ pc' = "after_fasta" /\ exit' = exit
       ELSE fasta_data' = fasta_data /\ pc' = "crashed" /\ exit' = 1

\* line 161: fasta_data = extract_fasta(source_gff)
CallExtractFasta ==
    /\ pc = "after_find"
    /\ ~NotFeature(feature)
    /\ FastaReturns(ExtractFasta(fs))
    /\ UNCHANGED <<argv, fs, feature, sequence>>

\* lines 162-164
NoFasta ==
    /\ pc = "after_fasta"
    /\ NotFasta(fasta_data)
    /\ out' = out \o PrintLines(MsgNoFasta(source_gff))
    /\ pc' = "done"
    /\ exit' = 0
    /\ UNCHANGED <<argv, fs, feature, fasta_data, sequence, calls>>

\* line 167: sequence = extract_sequence(fasta_data, feature)
CallExtractSequence ==
    /\ pc = "after_fasta"
    /\ ~NotFasta(fasta_data)
    /\ sequence' = ExtractSequence(fasta_data, feature)
    /\ calls' = Append(calls, "extract_sequence")
    /\ pc' = "after_extract"
    /\ UNCHANGED <<argv, fs, feature, fasta_data, out, exit>>

\* lines 168-178
PrintRecord ==
    /\ pc = "after_extract"
    /\ StrTruthy(sequence)
    /\ out' = out \o PrintLines(Header(feature_type, attribute, value))
                  \o PrintLines(FormattedSequence(sequence.str))
    /\ pc' = "done"
    /\ exit' = 0
    /\ UNCHANGED <<argv, fs, feature, fasta_data, sequence, calls>>

\* lines 179-180
PrintNoSequence ==
    /\ pc = "after_extract"
    /\ ~StrTruthy(sequence)
    /\ out' = out \o PrintLines(MsgNoSequence(feature_type, attribute, value))
    /\ pc' = "done"
    /\ exit' = 0
    /\ UNCHANGED <<argv, fs, feature, fasta_data, sequence, calls>>

Next ==
    \/ UsageError
    \/ CallFindFeature
    \/ NoMatch
    \/ Unlink
    \/ CallExtractFasta
    \/ NoFasta
    \/ CallExtractSequence
    \/ PrintRecord
    \/ PrintNoSequence

(* ------------------------------- inputs --------------------------------- *)
Prog == <<"export_gff3_feature.py">>
Path == <<"a.gff">>
Gene == <<"g", "e", "n", "e">>
MRna == <<"m", "R", "N", "A">>
Id == <<"I", "D">>
ValX == <<"x">>
Chr1 == <<"c", "1">>
Chr2 == <<"c", "2">>

\* a nine-column annotation line
Rec(seqid, type, start, end, strand, attributes) ==
    Join(<<seqid, <<"s">>, type, start, end, <<".">>, strand, <<".">>, attributes>>, <<TAB>>)

\* the first record that matches gene / ID / x
LineGene == Rec(Chr1, Gene, <<"2">>, <<"3">>, <<"+">>, <<"I", "D", "=", "x">>)
\* a later key overwrites ID=y; start has a leading blank; minus strand
LineDup == Rec(Chr2, Gene, <<" ", "3">>, <<"5">>, <<"-">>, <<"I", "D", "=", "y", ";", " ", "I", "D", " ", "=", " ", "x", ";", "N">>)
\* ID=x is overwritten by ID=y: no match
LineOver == Rec(Chr1, Gene, <<"1">>, <<"4">>, <<".">>, <<"I", "D", "=", "x", ";", "I", "D", "=", "y">>)
\* another feature type
LineMRna == Rec(Chr1, MRna, <<"1">>, <<"1">>, <<"+">>, <<"I", "D", "=", "x">>)
\* eight columns only
LineShort == Join(<<Chr1, <<"s">>, Gene, <<"1">>, <<"2">>, <<".">>, <<"+">>, <<"I", "D", "=", "x">>>>, <<TAB>>)
\* a commented-out record of nine columns
LineComment == <<"#">> \o Rec(Chr1, Gene, <<"4">>, <<"5">>, <<"+">>, <<"I", "D", "=", "x">>)
\* a matching record whose start is no integer
LineBadInt == Rec(Chr1, Gene, <<"a">>, <<"3">>, <<"+">>, <<"I", "D", "=", "x">>)
LineMarker == FastaMarker
\* a directive that only begins with ##FASTA
LineMarker2 == FastaMarker \o <<"2">>
LineHeader == <<">", "c", "1">>
LineSeq == <<"A", "C", "G", "T">>
\* lower case, N, an ambiguity code, blanks around
LineSeqWs == <<" ", "g", "N", "R", " ">>

Pool ==
    {LineGene, LineDup, LineOver, LineMRna, LineShort, LineComment, LineBadInt,
     LineMarker, LineMarker2, LineHeader, LineSeq, LineSeqWs}

TextFile(lines) == [kind |-> "text", lines |-> lines]

SmallFiles == {TextFile(l) : l \in UNION {[1..k -> Pool] : k \in 0..MaxLines}}

\* decimal text of a natural number
RECURSIVE IntToStr(_)
IntToStr(n) == IF n < 10 THEN <<Digits[n + 1]>> ELSE IntToStr(n \div 10) \o <<Digits[(n % 10) + 1]>>

Bases == <<"A", "C", "G", "T", "a", "c", "g", "t", "N", "n", "R", "-">>

\* a block of BlockLen characters with no short period
BigBlock == [i \in 1..BlockLen |-> Bases[((i * i + (i \div 7)) % 12) + 1]]


\* one record, the marker and two named sequences
BigFile(start, end, strand) ==
    TextFile(<<Rec(Chr1, Gene, IntToStr(start), IntToStr(end), strand, <<"I", "D", "=", "x">>),
               LineMarker,
               LineHeader,
               SubSeq(BigBlock, 1, FirstLineLen),
               <<">", "c", "2">>,
               SubSeq(BigBlock, FirstLineLen + 1, BlockLen)>>)

BigStarts == {0, 1, 62, BlockLen + 1}

BigFiles ==
    {BigFile(st, en, sd) : st \in BigStarts, en \in 1..MaxEnd, sd \in {<<"+">>, <<"-">>, <<".">>}}

\* no file at the path / a file that is not valid UTF-8
FailFiles == {[kind |-> "missing", lines |-> <<>>], [kind |-> "binary", lines |-> <<>>]}

Query == <<Prog, Path, Gene, Id, ValX>>

Argvs == {Query, SubSeq(Query, 1, 4), Query \o <<ValX>>}

Init ==
    /\ argv \in Argvs
    /\ \/ fs \in SmallFiles
       \/ fs \in BigFiles
       \/ fs \in FailFiles
    /\ pc = "main"
    /\ feature = NoFeature
    /\ fasta_data = NoneStr
    /\ sequence = NoneStr
    /\ out = <<>>
    /\ exit = 0 - 1
    /\ calls = <<>>

Spec == Init /\ [][Next]_vars

(* ------------------------ a whole run, as a function -------------------- *)
\* lines 166-180 on the value extract_sequence returned
PrintedFor(seq, args) ==
    IF StrTruthy(seq)
    THEN PrintLines(Header(args[3], args[4], args[5])) \o PrintLines(FormattedSequence(seq.str))
    ELSE PrintLines(MsgNoSequence(args[3], args[4], args[5]))

\* lines 161-180 on the feature found and the value extract_fasta returned
AfterFasta(f, fa, args) ==
    IF NotFasta(fa.ret) THEN fa.printed \o PrintLines(MsgNoFasta(args[2]))
    ELSE fa.printed \o PrintedFor(ExtractSequence(fa.ret, f), args)

\* lines 155-180 on what find_feature returned
AfterFind(r, file, args) ==
    IF NotFeature(r.ret) THEN r.printed \o PrintLines(MsgNoMatch(args[3], args[4], args[5]))
    ELSE r.printed \o AfterFasta(r.ret, ExtractFasta(file), args)

\* everything a run with four arguments prints when nothing touches the file
RunOut(file, args) == AfterFind(FindFeature(file, args[2], args[3], args[4], args[5]), file, args)

(* ------------------------------- claims --------------------------------- *)
Called(f) == \E i \in 1..Len(calls) : calls[i] = f

Contains(s, c) == \E i \in 1..Len(s) : s[i] = c

\* the text before / after the first "=" of an attribute entry
KeyOf(kv) == Strip(SubSeq(kv, 1, Min({i \in 1..Len(kv) : kv[i] = "="}) - 1))
ValOf(kv) == Strip(SubSeq(kv, Min({i \in 1..Len(kv) : kv[i] = "="}) + 1, Len(kv)))

\* the attribute map of the attribute column gives key = val: some entry
\* sets it and no later entry sets the key again
MapGives(entries, key, val) ==
    \E j \in 1..Len(entries) :
        /\ Contains(entries[j], "=")
        /\ KeyOf(entries[j]) = key
        /\ ValOf(entries[j]) = val
        /\ \A k \in (j + 1)..Len(entries) :
               Contains(entries[k], "=") => KeyOf(entries[k]) # key

NumTabs(l) == Cardinality({i \in 1..Len(l) : l[i] = TAB})

\* a stripped line that is a comment or has not nine tab-separated fields
Skipped(l) == (l # <<>> /\ l[1] = "#") \/ NumTabs(l) # 8

\* the columns of a line that is not Skipped
ColumnsOf(l) == Split(l, TAB)

\* line is a record that answers the query args
IsMatchOf(cols, args) == cols[3] = args[3] /\ MapGives(Split(cols[9], ";"), args[4], args[5])

IsMatch(line, args) == ~Skipped(Strip(line)) /\ IsMatchOf(ColumnsOf(Strip(line)), args)

MatchingLines(lines, args) == {i \in 1..Len(lines) : IsMatch(lines[i], args)}

\* the number of the first matching line, 0 when there is none
FirstMatch(lines, args) ==
    IF MatchingLines(lines, args) = {} THEN 0 ELSE Min(MatchingLines(lines, args))

FoundText == pc = "after_find" /\ fs.kind = "text"

\* the feature is the record in cols, its start and end read as integers
IsFeatureOf(f, cols) ==
    /\ f.some
    /\ f.seqid = cols[1]
    /\ f.strand = cols[7]
    /\ IntParse(cols[4]) = [ok |-> TRUE, val |-> f.start]
    /\ IntParse(cols[5]) = [ok |-> TRUE, val |-> f.end]

ReturnsFirst(k) ==
    IF k = 0 THEN feature = NoFeature
    ELSE IsFeatureOf(feature, ColumnsOf(Strip(fs.lines[k])))

\* C1 as stated: find_feature returns the seqid, start, end and strand of the
\* first matching line of the file, and None when no line matches.
C1_Original == FoundText => ReturnsFirst(FirstMatch(fs.lines, argv))

IntsOk(cols) == IntParse(cols[4]).ok /\ IntParse(cols[5]).ok

ReturnsFirstOrError(k) ==
    IF k = 0 THEN feature = NoFeature /\ out = <<>>
    ELSE /\ feature = FindFeature(TextFile(SubSeq(fs.lines, 1, k)),
                                  argv[2], argv[3], argv[4], argv[5]).ret
         /\ IF IntsOk(ColumnsOf(Strip(fs.lines[k])))
            THEN IsFeatureOf(feature, ColumnsOf(Strip(fs.lines[k]))) /\ out = <<>>
            ELSE feature = NoFeature /\ out = <<MsgError("ValueError")>>

\* C1, amended: find_feature returns the seqid, start, end and strand of the
\* first matching line of the file when the start and end columns of that
\* line are integers; when they are not it returns None and prints a
\* diagnostic; it returns None when no line matches. The lines after the
\* first matching line never influence the result.
C1_FirstMatch == FoundText => ReturnsFirstOrError(FirstMatch(fs.lines, argv))

\* the first matching line is followed by another matching line with other
\* coordinates, and the first one was returned
C1_Witness ==
    /\ FoundText
    /\ feature.some
    /\ Cardinality(MatchingLines(fs.lines, argv)) >= 2
    /\ feature.seqid = Chr1
    /\ \E i \in MatchingLines(fs.lines, argv) : ColumnsOf(Strip(fs.lines[i]))[1] = Chr2

Terminated == pc \in {"done", "exited", "crashed"}

DiagnosticsOfMain ==
    {MsgNoMatch(argv[3], argv[4], argv[5]), MsgNoFasta(argv[2]),
     MsgNoSequence(argv[3], argv[4], argv[5])}

\* the run printed the FASTA record last, or a diagnostic of main last
PrintedSomething ==
    /\ out # <<>>
    /\ \/ out[Len(out)] \in DiagnosticsOfMain
       \/ /\ StrTruthy(sequence)
          /\ \E h \in 1..(Len(out) - 1) : out[h] = Header(argv[3], argv[4], argv[5])

\* C2: the exit status is non-zero exactly when the argument count is not 4;
\* a run with 4 arguments never ends by an escaped exception: it is at a
\* statement of main whose branch can be taken, or it has returned with
\* status 0 after printing the FASTA record or a diagnostic.
C2_ExitStatus ==
    /\ Len(argv) # 5 /\ pc # "main" => pc = "exited" /\ exit = 1 /\ out = MsgUsage
    /\ Len(argv) = 5 => pc \notin {"crashed", "exited"} /\ exit \in {0 - 1, 0}
    /\ Len(argv) = 5 /\ pc = "done" => exit = 0 /\ PrintedSomething
    /\ exit = 0 => pc = "done"
    /\ ~Terminated => pc \in {"main", "after_find", "after_fasta", "after_extract"}

\* a run on a file that is no text, or is gone, ends with status 0
C2_Witness == pc = "done" /\ exit = 0 /\ fs.kind # "text" /\ Len(argv) = 5

Prefix(s, t) == Len(s) <= Len(t) /\ s = SubSeq(t, 1, Len(s))

Printed(line) == \E i \in 1..Len(out) : out[i] = line

\* C9: the phases run in the order find_feature, extract_fasta,
\* extract_sequence, print; extract_fasta is called only with a matched
\* feature, extract_sequence only with a non-empty block, and "No FASTA data
\* found" is printed only when a feature was matched.
C9_PhaseOrder ==
    /\ Prefix(calls, <<"find_feature", "extract_fasta", "extract_sequence">>)
    /\ pc = "main" \/ Len(argv) # 5 => calls = <<>>
    /\ pc \in {"after_find", "after_fasta", "after_extract", "done"} => calls # <<>>
    /\ Called("extract_fasta") => feature.some
    /\ ~feature.some => fasta_data = NoneStr /\ sequence = NoneStr
    /\ Called("extract_sequence") => StrTruthy(fasta_data)
    /\ ~StrTruthy(fasta_data) => sequence = NoneStr
    /\ Len(argv) = 5 /\ Printed(MsgNoFasta(argv[2])) => feature.some /\ Called("extract_fasta")
    /\ Len(argv) = 5 /\ Printed(MsgNoMatch(argv[3], argv[4], argv[5])) =>
           calls = <<"find_feature">> /\ ~feature.some
    /\ Len(argv) = 5 /\ Printed(Header(argv[3], argv[4], argv[5])) =>
           Len(calls) = 3 /\ pc = "done"

\* a run that matched a feature and then found no sequence block
C9_Witness ==
    /\ pc = "done"
    /\ fs.kind = "text"
    /\ Printed(MsgNoFasta(argv[2]))
    /\ feature.some
    /\ calls = <<"find_feature", "extract_fasta">>

Extracted == pc \in {"after_extract", "done"} /\ Called("extract_sequence")

\* the last 1-based position of the region that lies in a block of n characters
LastPos(n) == IF feature.end <= n THEN feature.end ELSE n

\* the characters of block at the 1-based positions first..last, in order
CharsAt(block, first, last) ==
    IF last < first THEN <<>> ELSE [i \in 1..(last - first + 1) |-> block[first + i - 1]]

Forward(strand) == strand = <<"+">> \/ strand = <<".">>

SameAsPlus ==
    ExtractSequence(fasta_data, feature)
        = ExtractSequence(fasta_data, [feature EXCEPT !.strand = <<"+">>])

\* C3: on a non-empty block, for start >= 1, end >= start and strand + or .,
\* extract_sequence returns the characters at the 1-based positions
\* start..min(end, len): end - start + 1 of them when end <= len, fewer when
\* end > len, none when start > len; strand . gives what strand + gives.
C3_ForwardSlice ==
    Extracted /\ feature.start >= 1 /\ feature.end >= feature.start /\ Forward(feature.strand)
    =>  /\ sequence = Str(CharsAt(fasta_data.str, feature.start, LastPos(Len(fasta_data.str))))
        /\ feature.end <= Len(fasta_data.str)
               => Len(sequence.str) = feature.end - feature.start + 1
        /\ feature.end > Len(fasta_data.str)
               => Len(sequence.str) < feature.end - feature.start + 1
        /\ feature.start > Len(fasta_data.str) => sequence.str = <<>>
        /\ SameAsPlus

\* a region on strand . that runs past the end of the block and is truncated
C3_Witness ==
    /\ Extracted
    /\ feature.strand = <<".">>
    /\ feature.start >= 2
    /\ feature.start <= Len(fasta_data.str)
    /\ feature.end > Len(fasta_data.str)
    /\ Len(sequence.str) = Len(fasta_data.str) - feature.start + 1

\* the complement of the claim: four pairs in each case, all else unchanged
Pairs ==
    {<<"A", "T">>, <<"T", "A">>, <<"C", "G">>, <<"G", "C">>,
     <<"a", "t">>, <<"t", "a">>, <<"c", "g">>, <<"g", "c">>}

PairOf(c) == IF \E q \in Pairs : q[1] = c THEN (CHOOSE q \in Pairs : q[1] = c)[2] ELSE c

\* the slice the same coordinates give on the forward strand
ForwardSlice == ExtractSequence(fasta_data, [feature EXCEPT !.strand = <<"+">>]).str

\* C4: on strand - extract_sequence returns the forward slice of the same
\* coordinates reversed, each character replaced by its complement
\* (A<->T, C<->G, a<->t, c<->g) and every other character unchanged; it is
\* as long as the forward slice.
C4_ReverseComplement ==
    Extracted /\ feature.strand = <<"-">>
    =>  /\ ~sequence.none
        /\ Len(sequence.str) = Len(ForwardSlice)
        /\ \A i \in 1..Len(ForwardSlice) :
               sequence.str[i] = PairOf(ForwardSlice[Len(ForwardSlice) + 1 - i])

\* a minus-strand region with upper case, lower case, N and other characters
C4_Witness ==
    /\ Extracted
    /\ feature.strand = <<"-">>
    /\ Len(sequence.str) >= 12
    /\ {"A", "c", "N", "R", "-"} \subseteq {ForwardSlice[i] : i \in 1..Len(ForwardSlice)}
    /\ sequence.str # ForwardSlice
    /\ sequence.str # Reverse(ForwardSlice)

RecordPrinted == pc = "done" /\ StrTruthy(sequence)

\* the lines printed after the header line
Body == SubSeq(out, 2, Len(out))

RECURSIVE Concat(_)
Concat(ls) == IF ls = <<>> THEN <<>> ELSE Head(ls) \o Concat(Tail(ls))

\* C5: for a non-empty extracted sequence the program prints the header
\* >type:attribute:value and then the sequence in lines of exactly 60
\* characters, the last line holding 1 to 60 characters; the lines joined in
\* order are the sequence; 125 characters give lines of 60, 60 and 5.
C5_Wrapping ==
    RecordPrinted
    =>  /\ Len(out) >= 2
        /\ out[1] = <<">">> \o argv[3] \o <<":">> \o argv[4] \o <<":">> \o argv[5]
        /\ \A i \in 1..(Len(Body) - 1) : Len(Body[i]) = 60
        /\ Len(Body[Len(Body)]) \in 1..60
        /\ Concat(Body) = sequence.str
        /\ Len(sequence.str) = 125 => <<Len(out[2]), Len(out[3]), Len(out[4])>> = <<60, 60, 5>>

\* a sequence of 125 characters printed in three lines
C5_Witness == RecordPrinted /\ Len(sequence.str) = 125 /\ Len(out) = 4

FastaRead == Called("extract_fasta") /\ fs.kind = "text"

Stripped(lines) == [i \in 1..Len(lines) |-> Strip(lines[i])]

\* the number of the first line equal to ##FASTA, 0 when there is none
FirstEqual(ls) ==
    IF \E i \in 1..Len(ls) : ls[i] = FastaMarker
    THEN Min({i \in 1..Len(ls) : ls[i] = FastaMarker}) ELSE 0

\* the number of the first line that begins with ##FASTA, 0 when there is none
FirstBeginning(ls) ==
    IF \E i \in 1..Len(ls) : StartsWith(ls[i], FastaMarker)
    THEN Min({i \in 1..Len(ls) : StartsWith(ls[i], FastaMarker)}) ELSE 0

IsSequenceLine(l) == l # <<>> /\ l[1] # ">"

NotMarker(l) == ~StartsWith(l, FastaMarker)

\* the non-empty lines after line m that do not begin with >, joined in order
BlockAfter(ls, m) ==
    IF m = 0 THEN <<>> ELSE Concat(SelectSeq(SubSeq(ls, m + 1, Len(ls)), IsSequenceLine))

\* C6 as stated: the block is the concatenation of the stripped non-empty
\* lines that do not begin with > and come after the first line equal to
\* ##FASTA; nothing before such a line contributes.
C6_Original ==
    FastaRead => fasta_data.str = BlockAfter(Stripped(fs.lines), FirstEqual(Stripped(fs.lines)))

\* as BlockAfter, without the lines that begin with ##FASTA
BlockAfterMarkers(ls, m) ==
    IF m = 0 THEN <<>>
    ELSE Concat(SelectSeq(SelectSeq(SubSeq(ls, m + 1, Len(ls)), IsSequenceLine), NotMarker))

\* C6, amended: the block is the concatenation of the stripped non-empty
\* lines that begin neither with > nor with ##FASTA and come after the first
\* line that begins with ##FASTA; nothing before that line contributes.
C6_Block ==
    FastaRead =>
        fasta_data.str = BlockAfterMarkers(Stripped(fs.lines), FirstBeginning(Stripped(fs.lines)))

\* the section opens with a line that only begins with ##FASTA, and the
\* sequence line after it has blanks around it
C6_Witness ==
    /\ FastaRead
    /\ Len(fs.lines) >= 3
    /\ fs.lines[Len(fs.lines) - 1] = LineMarker2
    /\ fs.lines[Len(fs.lines)] = LineSeqWs
    /\ fasta_data.str = Strip(LineSeqWs)

\* C7: extract_fasta returns None, not a string, when the file has no
\* ##FASTA marker or when nothing was accumulated after it.
C7_NoneWhenEmpty ==
    FastaRead /\ BlockAfterMarkers(Stripped(fs.lines), FirstBeginning(Stripped(fs.lines))) = <<>>
    => fasta_data.none

NotSkipped(line) == ~Skipped(Strip(line))

FindOn(lines) == FindFeature(TextFile(lines), argv[2], argv[3], argv[4], argv[5])

\* find_feature returned None and printed exactly this diagnostic
NoneWith(diagnostic) == feature = NoFeature /\ out = <<diagnostic>> /\ pc = "after_find"

FirstMatchBad ==
    /\ FirstMatch(fs.lines, argv) > 0
    /\ ~IntsOk(ColumnsOf(Strip(fs.lines[FirstMatch(fs.lines, argv)])))

\* C8: find_feature never raises; comment lines and lines without nine
\* tab-separated fields never give the match and are skipped silently (the
\* result is that of the file without them); a missing file, an undecodable
\* file and a matching record whose start or end is no integer each give
\* None and one diagnostic line.
C8_NeverRaises ==
    /\ pc # "crashed"
    /\ FoundText =>
           /\ feature = FindOn(SelectSeq(fs.lines, NotSkipped)).ret
           /\ out = FindOn(SelectSeq(fs.lines, NotSkipped)).printed
           /\ feature.some =>
                  /\ out = <<>>
                  /\ \E i \in 1..Len(fs.lines) :
                         /\ NotSkipped(fs.lines[i])
                         /\ IsFeatureOf(feature, ColumnsOf(Strip(fs.lines[i])))
           /\ FirstMatchBad => NoneWith(MsgError("ValueError"))
    /\ pc = "after_find" /\ fs.kind = "binary" => NoneWith(MsgError("UnicodeDecodeError"))
    /\ pc = "after_find" /\ fs.kind = "missing" /\ ~feature.some
           => NoneWith(MsgFileNotFound(argv[2]))
    /\ pc = "after_find" /\ ~feature.some /\ out # <<>> => Len(out) = 1

\* a commented-out record and a short line came before the record returned
C8_Witness ==
    /\ FoundText
    /\ Len(fs.lines) = 3
    /\ fs.lines[1] = LineComment
    /\ fs.lines[2] = LineShort
    /\ feature.some
    /\ feature.start # 4

RunDone == pc = "done" /\ fs.kind = "text" /\ Len(argv) = 5

SeqIds == {Chr1, Chr2, <<"I", "X">>}

\* line k, a record, with its seqid column replaced
WithSeqid(lines, k, seqid) ==
    [lines EXCEPT ![k] = Join(<<seqid>> \o Tail(ColumnsOf(Strip(lines[k]))), <<TAB>>)]

InsertAt(lines, p, l) == SubSeq(lines, 1, p - 1) \o <<l>> \o SubSeq(lines, p, Len(lines))

NotHeader(line) == ~StartsWith(Strip(line), <<">">>)

\* the file without the header lines of its FASTA section
WithoutHeaders(lines) ==
    IF FirstBeginning(Stripped(lines)) = 0 THEN lines
    ELSE SubSeq(lines, 1, FirstBeginning(Stripped(lines)))
             \o SelectSeq(SubSeq(lines, FirstBeginning(Stripped(lines)) + 1, Len(lines)), NotHeader)

SameOutput(lines) == RunOut(TextFile(lines), argv) = out

HeadersIgnored ==
    /\ \A p \in 1..(Len(fs.lines) + 1) : SameOutput(InsertAt(fs.lines, p, LineHeader))
    /\ SameOutput(WithoutHeaders(fs.lines))
    /\ Called("extract_sequence") =>
           sequence = ExtractSequence(Str(BlockAfterMarkers(Stripped(fs.lines),
                                              FirstBeginning(Stripped(fs.lines)))), feature)

SeqidIgnored ==
    \A seqid \in SeqIds : SameOutput(WithSeqid(fs.lines, FirstMatch(fs.lines, argv), seqid))

RecordBeforeFasta ==
    /\ FirstMatch(fs.lines, argv) > 0
    /\ \/ FirstBeginning(Stripped(fs.lines)) = 0
       \/ FirstMatch(fs.lines, argv) < FirstBeginning(Stripped(fs.lines))

====
